---- MODULE Spec2Model ----
(***************************************************************************)
(* Model of PriceAnalyzer (src/project.py): load_prices, find_text and     *)
(* export_to_html over a folder of CSV price lists.                        *)
(*                                                                         *)
(* A Python str is a sequence of one-character strings, so that strip(),   *)
(* lower(), `in` and float() are computed character by character.  The     *)
(* module has to be ASCII, so the Cyrillic headers of column_mapping are   *)
(* written in Latin transliteration ("cena" for the header "цена");        *)
(* str.lower maps every cased letter to its lower-case partner in both     *)
(* scripts.                                                                *)
(*                                                                         *)
(* A Python float is a reduced fraction <<n, d>> with d > 0.  The cells    *)
(* the model reads are short decimal numerals whose values and quotients   *)
(* are far enough apart that the order of the rounded doubles is the order *)
(* of the fractions.  The literals "nan", "inf" and exponents, which       *)
(* float() also accepts, are not among the cells.                          *)
(***************************************************************************)
EXTENDS Integers, Sequences, FiniteSets, TLC

\* Bounds of the model.
MaxFiles == 2
MaxRows == 2

\* Python's None; every str is a sequence of one-character strings, so this
\* value is no str.
None == <<"None">>

\* None where the program has a list of strings or of tuples
NoneList == <<None>>

---------------------------------------------------------------------------
\* str methods

UpperLetters == <<"A","B","C","D","E","F","G","H","I","J","K","L","M",
                  "N","O","P","Q","R","S","T","U","V","W","X","Y","Z">>

LowerLetters == <<"a","b","c","d","e","f","g","h","i","j","k","l","m",
                  "n","o","p","q","r","s","t","u","v","w","x","y","z">>

\* the lower-case partner of every upper-case letter
LowerOf ==
    [c \in {UpperLetters[i] : i \in 1..Len(UpperLetters)} |->
        LowerLetters[CHOOSE i \in 1..Len(UpperLetters) : UpperLetters[i] = c]]

LowerChar(c) == IF c \in DOMAIN LowerOf THEN LowerOf[c] ELSE c

\* str.lower()
Lower(s) == [i \in 1..Len(s) |-> LowerChar(s[i])]

Whitespace == {" ", "\t"}

RECURSIVE LStrip(_)
LStrip(s) ==
    IF s # <<>> /\ Head(s) \in Whitespace THEN LStrip(Tail(s)) ELSE s

RECURSIVE RStrip(_)
RStrip(s) ==
    IF s # <<>> /\ s[Len(s)] \in Whitespace
    THEN RStrip(SubSeq(s, 1, Len(s) - 1))
    ELSE s

\* str.strip()
Strip(s) == RStrip(LStrip(s))

\* sub in s
Contains(s, sub) ==
    \E k \in 0..(Len(s) - Len(sub)) :
        \A i \in 1..Len(sub) : s[k + i] = sub[i]

---------------------------------------------------------------------------
\* float

Digits == <<"0","1","2","3","4","5","6","7","8","9">>

IsDigit(c) == \E i \in 1..Len(Digits) : Digits[i] = c

DigitVal(c) == (CHOOSE i \in 1..Len(Digits) : Digits[i] = c) - 1

Abs(n) == IF n < 0 THEN -n ELSE n

RECURSIVE Gcd(_, _)
Gcd(a, b) == IF b = 0 THEN a ELSE Gcd(b, a % b)

\* the float with value n / d, d # 0
Float(n, d) ==
    LET g == Gcd(Abs(n), Abs(d))
        s == IF d < 0 THEN -1 ELSE 1
    IN  <<(s * n) \div g, (s * d) \div g>>

RECURSIVE Pow10(_)
Pow10(k) == IF k = 0 THEN 1 ELSE 10 * Pow10(k - 1)

\* the digits of a numeral read as one integer, the point skipped
RECURSIVE DigitsValue(_, _)
DigitsValue(s, acc) ==
    IF s = <<>> THEN acc
    ELSE IF Head(s) = "." THEN DigitsValue(Tail(s), acc)
    ELSE DigitsValue(Tail(s), 10 * acc + DigitVal(Head(s)))

RECURSIVE FracDigits(_)
FracDigits(s) ==
    IF s = <<>> THEN 0
    ELSE IF Head(s) = "." THEN Len(s) - 1
    ELSE FracDigits(Tail(s))

\* float(s): [sign] digits [. digits], at least one digit; anything else
\* raises ValueError.
ParseFloat(s) ==
    LET t == Strip(s)
        signed == t # <<>> /\ Head(t) \in {"+", "-"}
        body == IF signed THEN Tail(t) ELSE t
        sign == IF signed /\ Head(t) = "-" THEN -1 ELSE 1
        wellFormed ==
            /\ \A i \in 1..Len(body) : IsDigit(body[i]) \/ body[i] = "."
            /\ Cardinality({i \in 1..Len(body) : body[i] = "."}) <= 1
            /\ \E i \in 1..Len(body) : IsDigit(body[i])
    IN  IF wellFormed
        THEN [exc |-> "none",
              val |-> Float(sign * DigitsValue(body, 0), Pow10(FracDigits(body)))]
        ELSE [exc |-> "ValueError", val |-> <<0, 1>>]

\* a / b on floats; b = 0 raises ZeroDivisionError
Div(a, b) ==
    IF b[1] = 0
    THEN [exc |-> "ZeroDivisionError", val |-> <<0, 1>>]
    ELSE [exc |-> "none", val |-> Float(a[1] * b[2], a[2] * b[1])]

\* a < b on floats
FloatLess(a, b) == a[1] * b[2] < b[1] * a[2]

\* f"{x:.2f}": x rounded to hundredths, ties to even, as a count of
\* hundredths
Format2f(x) ==
    LET n == 100 * x[1]
        d == x[2]
        q == n \div d
        r == n % d
    IN  IF 2 * r < d THEN q
        ELSE IF 2 * r > d THEN q + 1
        ELSE IF q % 2 = 0 THEN q ELSE q + 1

---------------------------------------------------------------------------
\* load_prices

VARIABLES
    listable,   \* whether os.listdir succeeds on self.folder_path
    data,       \* self.data, the catalog
    pc,         \* "idle", "for_file", "for_row", "done", "raised"
    files,      \* the candidate files of load_prices
    fi,         \* position of `file` in files (0 before the first)
    reader,     \* the csv.DictReader of the current file: fieldnames and rows
    columns,    \* canonical field -> header of the current file
    ri,         \* number of rows of reader consumed by `for row in reader`
    opened,     \* the files open() was called on, in call order
    logged,     \* the record the last step handed to logging
    query,      \* the argument of the last find_text call
    results,    \* what the last find_text call returned
    document    \* the table rows export_to_html last wrote

vars == <<listable, data, pc, files, fi, reader, columns, ri, opened, logged,
          query, results, document>>

\* 'price', the substring a candidate file name contains
price_substring == <<"p","r","i","c","e">>

\* column_mapping; keys in transliteration:
\* nazvanie, produkt, tovar, naimenovanie -> name; cena, roznica -> price;
\* fasovka, massa, ves -> weight
column_mapping ==
    (<<"n","a","z","v","a","n","i","e">> :> "name") @@
    (<<"p","r","o","d","u","k","t">> :> "name") @@
    (<<"t","o","v","a","r">> :> "name") @@
    (<<"n","a","i","m","e","n","o","v","a","n","i","e">> :> "name") @@
    (<<"c","e","n","a">> :> "price") @@
    (<<"r","o","z","n","i","c","a">> :> "price") @@
    (<<"f","a","s","o","v","k","a">> :> "weight") @@
    (<<"m","a","s","s","a">> :> "weight") @@
    (<<"v","e","s">> :> "weight")

\* column_mapping.get(key, None)
MappingGet(key) ==
    IF key \in DOMAIN column_mapping THEN column_mapping[key] ELSE "None"

\* the loop with `if mapped_col and mapped_col not in columns`: the first
\* header of a field is kept
RECURSIVE ResolveColumnsFirstWins(_, _)
ResolveColumnsFirstWins(fieldnames, cols) ==
    IF fieldnames = <<>> THEN cols
    ELSE LET col == Head(fieldnames)
             mapped_col == MappingGet(Lower(col))
         IN  ResolveColumnsFirstWins(Tail(fieldnames),
                 IF mapped_col # "None" /\ mapped_col \notin DOMAIN cols
                 THEN [f \in DOMAIN cols \cup {mapped_col} |->
                          IF f = mapped_col THEN col ELSE cols[f]]
                 ELSE cols)

\* the loop over reader.fieldnames: a header whose lower-case form is a key
\* of column_mapping overwrites columns[mapped_col]
RECURSIVE ResolveColumns(_, _)
ResolveColumns(fieldnames, cols) ==
    IF fieldnames = <<>> THEN cols
    ELSE LET col == Head(fieldnames)
             mapped_col == MappingGet(Lower(col))
         IN  ResolveColumns(Tail(fieldnames),
                 IF mapped_col # "None"
                 THEN [f \in DOMAIN cols \cup {mapped_col} |->
                          IF f = mapped_col THEN col ELSE cols[f]]
                 ELSE cols)

NoColumns == [f \in {} |-> <<>>]

required_columns == <<"name", "price", "weight">>

\* only 'name' is checked
missing_columnsNameOnly(cols) ==
    SelectSeq(<<"name">>, LAMBDA col : col \notin DOMAIN cols)

\* [col for col in required_columns if col not in columns]
missing_columns(cols) ==
    SelectSeq(required_columns, LAMBDA col : col \notin DOMAIN cols)

\* row[col] of the dict csv.DictReader builds from a row: zip(fieldnames,
\* row), then restval None for the fieldnames the row is too short for; the
\* last column named col decides.
RowGet(fieldnames, row, col) ==
    LET last == CHOOSE i \in 1..Len(fieldnames) :
                    /\ fieldnames[i] = col
                    /\ \A j \in (i + 1)..Len(fieldnames) : fieldnames[j] # col
    IN  IF last <= Len(row) THEN row[last] ELSE None

NoRecord == <<>>

\* the body of the inner try: the record to append, or the exception raised
NormalizeRow(fieldnames, cols, row, file) ==
    LET nameCell == RowGet(fieldnames, row, cols["name"])
        priceCell == RowGet(fieldnames, row, cols["price"])
        weightCell == RowGet(fieldnames, row, cols["weight"])
        p == ParseFloat(Strip(priceCell))
        w == ParseFloat(Strip(weightCell))
        price_per_kg == Div(p.val, w.val)
    IN  IF nameCell = None THEN [exc |-> "AttributeError", rec |-> NoRecord]
        ELSE IF priceCell = None THEN [exc |-> "AttributeError", rec |-> NoRecord]
        ELSE IF p.exc # "none" THEN [exc |-> p.exc, rec |-> NoRecord]
        ELSE IF weightCell = None THEN [exc |-> "AttributeError", rec |-> NoRecord]
        ELSE IF w.exc # "none" THEN [exc |-> w.exc, rec |-> NoRecord]
        ELSE IF price_per_kg.exc # "none"
             THEN [exc |-> price_per_kg.exc, rec |-> NoRecord]
        ELSE [exc |-> "none",
              rec |-> <<Strip(nameCell), p.val, w.val, file, price_per_kg.val>>]

\* self.data.insert(0, entry)
PrependEntry(entries, entry) == <<entry>> \o entries

\* self.data.append(entry)
AppendEntry(entries, entry) == Append(entries, entry)

\* the row loop's except clause without ValueError
RowCaughtNoValueError == {"KeyError", "TypeError"}

\* except (KeyError, ValueError, TypeError) of the row loop
RowCaught == {"KeyError", "ValueError", "TypeError"}

\* the file loop's except clause as except OSError
FileCaughtOSError == {"OSError"}

\* except Exception of the file loop
FileCaught == {"KeyError", "ValueError", "TypeError", "AttributeError",
               "ZeroDivisionError", "OSError"}

NoLog == [level |-> "NONE", file |-> <<>>, what |-> "none", detail |-> <<>>]

LogMissing(file, missing) ==
    [level |-> "WARNING", file |-> file, what |-> "missing", detail |-> missing]

LogRowError(file, exc) ==
    [level |-> "ERROR", file |-> file, what |-> "row", detail |-> <<exc>>]

LogOpenError(file, exc) ==
    [level |-> "ERROR", file |-> file, what |-> "open", detail |-> <<exc>>]

---------------------------------------------------------------------------
\* Inputs

\* names os.listdir may return; the second holds no 'price'
FileNames == {<<"p","r","i","c","e","1">>, <<"P","r","i","c","e","2">>, <<"x","p","r","i","c","e">>}

HeaderNameCenaFasovka == <<<<"N","a","z","v","a","n","i","e">>, <<"C","e","n","a">>, <<"F","a","s","o","v","k","a">>>>
HeaderNoWeight == <<<<"N","a","z","v","a","n","i","e">>, <<"C","e","n","a">>>>
HeaderTwoPrices == <<<<"T","o","v","a","r">>, <<"r","o","z","n","i","c","a">>, <<"C","E","N","A">>, <<"m","a","s","s","a">>>>
HeaderUnmatched == <<<<"i","d">>, <<"c","e","n","a"," ">>, <<"v","e","s">>>>

HeaderLists ==
    {HeaderNameCenaFasovka, HeaderNoWeight, HeaderTwoPrices, HeaderUnmatched}

\* the data rows csv.DictReader yields as lists of cells; it skips blank
\* lines, so every row has a cell
RowPlain == <<<<" ","a","B">>, <<"2">>, <<"4">>>>
RowTie == <<<<"b">>, <<"1"," ">>, <<"2">>>>
RowCheap == <<<<"A","b">>, <<"-","0",".","5">>, <<"4">>, <<"2">>>>
RowZeroWeight == <<<<"b">>, <<"1">>, <<"0">>>>
RowBadPrice == <<<<"b">>, <<"x">>, <<"1">>>>
RowBadWeight == <<<<"b">>, <<"1">>, <<"x">>>>
RowShort == <<<<"b">>, <<"1">>>>

RowPalette == {RowPlain, RowTie, RowCheap, RowZeroWeight, RowBadPrice,
               RowBadWeight, RowShort}

SeqsUpTo(S, n) == UNION {[1..k -> S] : k \in 0..n}

RowSeqs == SeqsUpTo(RowPalette, MaxRows)

\* what open() and csv.DictReader give for a file before its rows are read:
\* open() fails, or the file is empty (fieldnames is None), or a header row
FileHeads ==
    {[openable |-> FALSE, fieldnames |-> NoneList, rows |-> <<>>],
     [openable |-> TRUE, fieldnames |-> NoneList, rows |-> <<>>]}
    \cup [openable : {TRUE}, fieldnames : HeaderLists, rows : {<<>>}]

NoReader == [openable |-> FALSE, fieldnames |-> NoneList, rows |-> <<>>]

Listings ==
    {s \in SeqsUpTo(FileNames, MaxFiles) :
        \A i, j \in 1..Len(s) : i # j => s[i] # s[j]}

Queries == {<<>>, <<"B">>, <<"a","b">>, <<"x">>}

---------------------------------------------------------------------------
\* The analyzer

\* __init__, before any call
Init ==
    /\ listable \in BOOLEAN
    /\ data = <<>>
    /\ pc = "idle"
    /\ files = <<>>
    /\ fi = 0
    /\ reader = NoReader
    /\ columns = NoColumns
    /\ ri = 0
    /\ opened = <<>>
    /\ logged = NoLog
    /\ query = None
    /\ results = NoneList
    /\ document = NoneList

\* [f for f in os.listdir(self.folder_path) if 'price' in f]
Candidates(names) == SelectSeq(names, LAMBDA f : Contains(f, price_substring))

\* load_prices is called: os.listdir raises on a folder it cannot list,
\* else it returns a listing and the candidate files are selected
LoadStart ==
    /\ pc = "idle"
    /\ IF listable
       THEN /\ \E names \in Listings : files' = Candidates(names)
            /\ pc' = "for_file"
       ELSE /\ files' = files
            /\ pc' = "raised"
    /\ UNCHANGED <<listable, data, fi, reader, columns, ri, opened, logged,
                   query, results, document>>

\* the exception exc reaches the except clause of the file loop: caught and
\* logged there, or raised out of load_prices
FileExcept(file, exc) ==
    IF exc \in FileCaught
    THEN /\ logged' = LogOpenError(file, exc)
         /\ pc' = "for_file"
    ELSE /\ logged' = NoLog
         /\ pc' = "raised"

\* one iteration of `for file in files` up to the row loop: open the file,
\* resolve its columns, skip it when a required column is missing; the rows
\* behind the header are those the row loop is going to read
NextFile ==
    /\ pc = "for_file"
    /\ fi < Len(files)
    /\ \E content \in FileHeads :
        LET file == files[fi + 1]
            cols == ResolveColumns(content.fieldnames, NoColumns)
        IN  /\ fi' = fi + 1
            /\ opened' = Append(opened, file)
            /\ ri' = 0
            /\ data' = data
            /\ IF ~content.openable
               THEN /\ FileExcept(file, "OSError")
                    /\ reader' = NoReader
                    /\ columns' = NoColumns
               ELSE IF content.fieldnames = NoneList
               THEN /\ FileExcept(file, "TypeError")
                    /\ reader' = content
                    /\ columns' = NoColumns
               ELSE IF missing_columns(cols) # <<>>
               THEN /\ logged' = LogMissing(file, missing_columns(cols))
                    /\ pc' = "for_file"
                    /\ reader' = content
                    /\ columns' = cols
               ELSE /\ logged' = NoLog
                    /\ pc' = "for_row"
                    /\ \E rows \in RowSeqs :
                          reader' = [content EXCEPT !.rows = rows]
                    /\ columns' = cols
    /\ UNCHANGED <<listable, files, query, results, document>>

\* one iteration of `for row in reader`: the row is appended, or skipped by
\* the except clause of the row loop, or its exception ends the file
NextRow ==
    /\ pc = "for_row"
    /\ ri < Len(reader.rows)
    /\ LET file == files[fi]
           r == NormalizeRow(reader.fieldnames, columns, reader.rows[ri + 1], file)
       IN  /\ ri' = ri + 1
           /\ IF r.exc = "none"
              THEN /\ data' = AppendEntry(data, r.rec)
                   /\ logged' = NoLog
                   /\ pc' = "for_row"
              ELSE IF r.exc \in RowCaught
              THEN /\ data' = data
                   /\ logged' = LogRowError(file, r.exc)
                   /\ pc' = "for_row"
              ELSE /\ data' = data
                   /\ FileExcept(file, r.exc)
    /\ UNCHANGED <<listable, files, fi, reader, columns, opened, query, results,
                   document>>

\* the reader is exhausted: the with block closes the file
EndOfFile ==
    /\ pc = "for_row"
    /\ ri = Len(reader.rows)
    /\ pc' = "for_file"
    /\ logged' = NoLog
    /\ UNCHANGED <<listable, data, files, fi, reader, columns, ri, opened,
                   query, results, document>>

\* files is exhausted: load_prices returns and its locals are gone
LoadReturn ==
    /\ pc = "for_file"
    /\ fi = Len(files)
    /\ pc' = "done"
    /\ reader' = NoReader
    /\ columns' = NoColumns
    /\ ri' = 0
    /\ logged' = NoLog
    /\ UNCHANGED <<listable, data, files, fi, opened, query, results, document>>

---------------------------------------------------------------------------
\* find_text

\* [entry for entry in self.data if query.lower() in entry[0].lower()]
Matching(entries, q) ==
    SelectSeq(entries, LAMBDA entry : Contains(Lower(entry[1]), Lower(q)))

\* insert entry in front of the elements whose key is equal: not stable
RECURSIVE InsertSortedBeforeEqual(_, _)
InsertSortedBeforeEqual(sorted, entry) ==
    IF sorted = <<>> THEN <<entry>>
    ELSE IF ~FloatLess(Head(sorted)[5], entry[5]) THEN <<entry>> \o sorted
    ELSE <<Head(sorted)>> \o InsertSortedBeforeEqual(Tail(sorted), entry)

\* insert entry behind every element whose key is not greater
RECURSIVE InsertSorted(_, _)
InsertSorted(sorted, entry) ==
    IF sorted = <<>> THEN <<entry>>
    ELSE IF FloatLess(entry[5], Head(sorted)[5]) THEN <<entry>> \o sorted
    ELSE <<Head(sorted)>> \o InsertSorted(Tail(sorted), entry)

\* sorted(entries, key=lambda x: x[-1]): stable, ascending
RECURSIVE Sorted(_)
Sorted(entries) ==
    IF entries = <<>> THEN <<>>
    ELSE InsertSorted(Sorted(SubSeq(entries, 1, Len(entries) - 1)),
                      entries[Len(entries)])

find_text(entries, q) == Sorted(Matching(entries, q))

FindText ==
    /\ pc = "done"
    /\ \E q \in Queries :
        /\ query' = q
        /\ results' = find_text(data, q)
    /\ UNCHANGED <<listable, data, pc, files, fi, reader, columns, ri, opened,
                   logged, document>>

---------------------------------------------------------------------------
\* export_to_html

\* the table rows of enumerate(self.data), numbered from 0
TableRowsFromZero(entries) ==
    [number \in 1..Len(entries) |->
        <<number - 1, entries[number][1], entries[number][2],
          entries[number][3], entries[number][4],
          Format2f(entries[number][5])>>]

\* the table rows written for enumerate(self.data, 1); price_per_kg is
\* written with two decimals
TableRows(entries) ==
    [number \in 1..Len(entries) |->
        <<number, entries[number][1], entries[number][2], entries[number][3],
          entries[number][4], Format2f(entries[number][5])>>]

ExportToHtml ==
    /\ pc = "done"
    /\ document' = TableRows(data)
    /\ UNCHANGED <<listable, data, pc, files, fi, reader, columns, ri, opened,
                   logged, query, results>>

---------------------------------------------------------------------------

Next ==
    \/ LoadStart
    \/ NextFile
    \/ NextRow
    \/ EndOfFile
    \/ LoadReturn
    \/ FindText
    \/ ExportToHtml

Spec == Init /\ [][Next]_vars

---------------------------------------------------------------------------
\* The column resolver on its own: every header list up to MaxHeaders

MaxHeaders == 3

HeaderStrings == {<<"C","e","n","a">>, <<"r","o","z","n","i","c","a">>, <<"T","O","V","A","R">>, <<"v","e","s">>, <<"i","d">>, <<"c","e","n","a"," ">>}

InitResolver ==
    /\ listable = TRUE
    /\ data = <<>>
    /\ pc = "resolve"
    /\ files = <<>>
    /\ fi = 0
    /\ reader \in [openable : {TRUE},
                   fieldnames : SeqsUpTo(HeaderStrings, MaxHeaders) \ {<<>>},
                   rows : {<<>>}]
    /\ columns = NoColumns
    /\ ri = 0
    /\ opened = <<>>
    /\ logged = NoLog
    /\ query = None
    /\ results = NoneList
    /\ document = NoneList

\* the loop over reader.fieldnames and the check of required_columns
ResolveHeaders ==
    /\ pc = "resolve"
    /\ columns' = ResolveColumns(reader.fieldnames, NoColumns)
    /\ logged' = IF missing_columns(columns') # <<>>
                 THEN LogMissing(<<>>, missing_columns(columns'))
                 ELSE NoLog
    /\ pc' = "resolved"
    /\ UNCHANGED <<listable, data, files, fi, reader, ri, opened, query, results,
                   document>>

NextResolver == ResolveHeaders

SpecResolver == InitResolver /\ [][NextResolver]_vars

---------------------------------------------------------------------------
\* Vocabulary of the properties

Fields == {"name", "price", "weight"}

Range(s) == {s[i] : i \in 1..Len(s)}

CurFile == files[fi]

\* the records of the catalog that name file as their source
FromFile(file) == SelectSeq(data, LAMBDA entry : entry[4] = file)

\* the current file got through the column check and its processing is over
FileRead ==
    /\ pc = "for_file"
    /\ fi >= 1
    /\ reader.openable
    /\ reader.fieldnames # NoneList
    /\ DOMAIN columns = Fields

InFile == pc = "for_row" \/ FileRead

\* the row has a cell in the column mapped to field
HasCell(row, field) ==
    \E i \in 1..Len(row) :
        i <= Len(reader.fieldnames) /\ reader.fieldnames[i] = columns[field]

CellOf(row, field) ==
    row[CHOOSE i \in 1..Len(row) : reader.fieldnames[i] = columns[field]]

IsNumeric(cell) == ParseFloat(cell).exc = "none"

ShortRow(row) == \E f \in Fields : ~HasCell(row, f)

NonNumericRow(row) ==
    /\ ~ShortRow(row)
    /\ ~IsNumeric(CellOf(row, "price")) \/ ~IsNumeric(CellOf(row, "weight"))

ZeroWeightRow(row) ==
    /\ ~ShortRow(row)
    /\ IsNumeric(CellOf(row, "price"))
    /\ IsNumeric(CellOf(row, "weight"))
    /\ ParseFloat(CellOf(row, "weight")).val[1] = 0

ValidRow(row) ==
    /\ ~ShortRow(row)
    /\ IsNumeric(CellOf(row, "price"))
    /\ IsNumeric(CellOf(row, "weight"))
    /\ ParseFloat(CellOf(row, "weight")).val[1] # 0

\* unit = price / weight, as unit * weight = price on fractions
IsQuotient(unit, p, w) == unit[1] * w[1] * p[2] = p[1] * unit[2] * w[2]

\* entry is the record of the valid row, read from file
RecordOf(entry, row, file) ==
    /\ entry[1] = Strip(CellOf(row, "name"))
    /\ entry[2] = ParseFloat(CellOf(row, "price")).val
    /\ entry[3] = ParseFloat(CellOf(row, "weight")).val
    /\ entry[4] = file
    /\ IsQuotient(entry[5], entry[2], entry[3])

\* entries are the records of exactly the valid rows among rows, in order
Gained(entries, rows, file) ==
    LET valid == SelectSeq(rows, ValidRow)
    IN  /\ Len(entries) = Len(valid)
        /\ \A i \in 1..Len(valid) : RecordOf(entries[i], valid[i], file)

Consumed == SubSeq(reader.rows, 1, ri)

---------------------------------------------------------------------------
\* C1: a zero-weight row is skipped like a malformed row: it is not
\* appended and the valid rows behind it in the file are still appended, so
\* a file whose only faulty rows have weight zero, once processed, has
\* contributed exactly its valid rows.
ZeroWeightRowSkipped ==
    (/\ FileRead
     /\ \A i \in 1..Len(reader.rows) :
            ValidRow(reader.rows[i]) \/ ZeroWeightRow(reader.rows[i]))
    => Gained(FromFile(CurFile), reader.rows, CurFile)

\* C2: a short row is skipped as a malformed row: it is not appended and
\* the valid rows behind it in the file are still appended, so a file whose
\* only faulty rows are short, once processed, has contributed exactly its
\* valid rows.
ShortRowSkipped ==
    (/\ FileRead
     /\ \A i \in 1..Len(reader.rows) :
            ValidRow(reader.rows[i]) \/ ShortRow(reader.rows[i]))
    => Gained(FromFile(CurFile), reader.rows, CurFile)

OnlyNonNumericFaults ==
    \A i \in 1..Len(reader.rows) :
        ValidRow(reader.rows[i]) \/ NonNumericRow(reader.rows[i])

\* C3: in a file whose faulty rows are rows with a non-numeric price or
\* weight, the row loop never ends early, and after every row the catalog
\* has gained exactly the valid rows read so far; the processed file has
\* contributed exactly its valid rows.
NonNumericRowSkipped ==
    (InFile /\ OnlyNonNumericFaults)
    => /\ pc = "for_file" => ri = Len(reader.rows)
       /\ Gained(FromFile(CurFile), Consumed, CurFile)

\* a processed file with a non-numeric row in front of a valid row
NonNumericRowSkippedWitness ==
    /\ FileRead
    /\ OnlyNonNumericFaults
    /\ Len(reader.rows) = 2
    /\ NonNumericRow(reader.rows[1])
    /\ ValidRow(reader.rows[2])
    /\ Len(FromFile(CurFile)) = 1

\* C4: with a listable folder load_prices never raises; while it runs, the
\* files opened are the candidates up to the current one, and when it
\* returns open() has been called on every candidate file, in listing order.
LoadAlwaysCompletes ==
    listable =>
        /\ pc # "raised"
        /\ pc \in {"for_file", "for_row"} => opened = SubSeq(files, 1, fi)
        /\ pc = "done" => opened = files

\* a row of the first of two candidate files raised out of the row loop and
\* the file loop is about to go on
LoadAlwaysCompletesWitness ==
    /\ pc = "for_file"
    /\ Len(files) = 2
    /\ fi = 1
    /\ logged = LogOpenError(files[1], "ZeroDivisionError")

\* the canonical fields no header of fieldnames resolves to
Unresolved(fieldnames) ==
    LET keys == {Lower(fieldnames[i]) : i \in 1..Len(fieldnames)}
    IN  Fields \ {column_mapping[key] : key \in keys \cap DOMAIN column_mapping}

\* C5: opening a file whose headers leave a canonical field unresolved
\* leaves the catalog as it was, logs a warning whose fields are exactly the
\* unresolved ones, and leaves the file loop at its next file, so that no
\* row of the file is read.
MissingColumnsSkipFile ==
    [][ (/\ fi' = fi + 1
         /\ reader'.openable
         /\ reader'.fieldnames # NoneList
         /\ Unresolved(reader'.fieldnames) # {})
        => /\ data' = data
           /\ pc' = "for_file"
           /\ logged'.what = "missing"
           /\ logged'.file = files[fi']
           /\ Range(logged'.detail) = Unresolved(reader'.fieldnames)
      ]_vars

\* the second file lacks the weight column, the first has given records
MissingColumnsSkipFileWitness ==
    /\ pc = "for_file"
    /\ fi = 2
    /\ data # <<>>
    /\ reader.fieldnames = HeaderNoWeight
    /\ logged = LogMissing(files[2], <<"weight">>)

\* the positions of entries whose lower-case name contains the lower-case q
MatchSet(entries, q) ==
    {i \in 1..Len(entries) : Contains(Lower(entries[i][1]), Lower(q))}

\* entry i comes before entry j: smaller unitPrice, or equal and earlier
ComesBefore(entries, i, j) ==
    \/ FloatLess(entries[i][5], entries[j][5])
    \/ /\ ~FloatLess(entries[j][5], entries[i][5])
       /\ i < j

\* C6: find_text returns exactly the records whose lower-case name
\* contains the lower-case query, every record for the empty query, each at
\* the place that ascending unitPrice with ties in catalog order gives it.
FindTextContract ==
    results # NoneList =>
        LET m == MatchSet(data, query)
        IN  /\ Len(results) = Cardinality(m)
            /\ \A i \in m :
                  results[Cardinality({j \in m : ComesBefore(data, j, i)}) + 1]
                      = data[i]
            /\ query = <<>> => Len(results) = Len(data)

\* a query that drops a record, moves a cheaper record forward and keeps two
\* different records of equal unitPrice in catalog order
FindTextContractWitness ==
    /\ results # NoneList
    /\ Len(results) >= 3
    /\ Len(results) < Len(data)
    /\ results # Matching(data, query)
    /\ \E j \in 1..(Len(results) - 1) :
          /\ results[j][5] = results[j + 1][5]
          /\ results[j] # results[j + 1]

\* C7: each canonical field is mapped iff some header's lower-case form is
\* a key of the synonym table for it, and then to the last such header of
\* the header list; other headers are ignored.
LastHeaderWins ==
    pc = "resolved" =>
        /\ DOMAIN columns \subseteq Fields
        /\ \A f \in Fields :
              LET idx == {i \in 1..Len(reader.fieldnames) :
                            \E key \in DOMAIN column_mapping :
                                /\ column_mapping[key] = f
                                /\ Lower(reader.fieldnames[i]) = key}
              IN  IF idx = {}
                  THEN f \notin DOMAIN columns
                  ELSE /\ f \in DOMAIN columns
                       /\ columns[f] =
                            reader.fieldnames[CHOOSE i \in idx :
                                                  \A j \in idx : j <= i]

\* two different price headers and a header outside the table
LastHeaderWinsWitness ==
    /\ pc = "resolved"
    /\ reader.fieldnames = <<<<"C","e","n","a">>, <<"i","d">>, <<"r","o","z","n","i","c","a">>>>
    /\ columns = [price |-> <<"r","o","z","n","i","c","a">>]

\* C8: every record of the catalog has a positive price and a positive
\* weight, and its unitPrice is its price divided by its weight.
RecordsPositive ==
    \A i \in 1..Len(data) :
        /\ data[i][2][1] > 0
        /\ data[i][3][1] > 0
        /\ IsQuotient(data[i][5], data[i][2], data[i][3])

\* C9: export_to_html leaves the catalog as it is and writes one table row
\* per record, in catalog order, numbered 1, 2, ..., n.
ExportContract ==
    [][ document' # document =>
          /\ data' = data
          /\ Len(document') = Len(data)
          /\ \A i \in 1..Len(data) :
                /\ document'[i][1] = i
                /\ \A k \in 1..4 : document'[i][k + 1] = data[i][k]
      ]_vars

\* an export of a catalog that holds the same record twice
ExportContractWitness ==
    /\ document # NoneList
    /\ Len(document) >= 3
    /\ \E i, j \in 1..Len(data) : i < j /\ data[i] = data[j]

\* the position of file in the candidate list
FilePosition(file) == CHOOSE k \in 1..Len(files) : files[k] = file

\* C10: a step leaves the catalog as it was or adds one record at its end;
\* the record added is that of the row the row loop has just read, a valid
\* row is always added, the loop position (file, row) only moves forward,
\* the records are in the order of their files, and find_text and
\* export_to_html leave the catalog as it was.
CatalogAppendOnly ==
    [][ /\ \/ data' = data
           \/ /\ pc = "for_row"
              /\ fi' = fi
              /\ ri' = ri + 1
              /\ Len(data') = Len(data) + 1
              /\ SubSeq(data', 1, Len(data)) = data
              /\ ValidRow(reader.rows[ri'])
              /\ RecordOf(data'[Len(data')], reader.rows[ri'], CurFile)
        /\ (pc = "for_row" /\ ri' = ri + 1 /\ ValidRow(reader.rows[ri']))
              => data' # data
        /\ (pc \in {"for_file", "for_row"} /\ pc' \in {"for_file", "for_row"})
              => fi' > fi \/ (fi' = fi /\ ri' >= ri)
        /\ \A i, j \in 1..Len(data') :
              i < j => FilePosition(data'[i][4]) <= FilePosition(data'[j][4])
        /\ (query' # query \/ results' # results \/ document' # document)
              => data' = data
      ]_vars

\* the rows of the second file are being added behind those of the first,
\* and the catalog holds the same record twice
CatalogAppendOnlyWitness ==
    /\ pc = "for_row"
    /\ fi = 2
    /\ ri = 2
    /\ Len(data) = 4
    /\ data[1] = data[2]
    /\ data[3] = data[4]

====
